---- MODULE Spec2Model ----
(***************************************************************************)
(* A model of the India Pulse news-reel generator: the /api/india-news     *)
(* route (GET, the content normalizer) and the Home component (fetch,      *)
(* generation run, encoder, logs, video handle), from                      *)
(* src/src/app/api/india-news/route.ts.                                    *)
(*                                                                         *)
(* A nullable JavaScript value is a sequence: <<>> is null, <<v>> is v.    *)
(* A string is a TLA+ string when it is only compared, and a sequence of   *)
(* one-character strings when the code looks inside it.                    *)
(***************************************************************************)
EXTENDS Integers, Sequences, FiniteSets, TLC

VARIABLES
    updates,         \* useState<IndiaUpdate[]>([])
    loadingUpdates,  \* useState(false)
    error,           \* useState<string | null>(null)
    narration,       \* useState("")
    isGenerating,    \* useState(false)
    videoUrl,        \* useState<string | null>(null)
    videoDuration,   \* useState<number | null>(null)
    logs,            \* useState<string[]>([])
    pending,         \* the state updates queued for the next render
    ffmpegRef,       \* useRef<FFmpegInstance | null>(null)
    isMountedRef,    \* useRef(true)
    mounted,         \* the component is in the tree (its state exists)
    fetches,         \* the fetchUpdates calls awaiting their response
    runs,            \* the handleGenerateVideo calls, in start order
    instances,       \* the encoder instances createFFmpeg has made
    files,           \* the encoder's in-memory file system, per instance
    objectUrls,      \* per object URL created: how often it was revoked
    fnArg,           \* argument of the pure function under check
    fnRet            \* its result, null before the call

vars == <<updates, loadingUpdates, error, narration, isGenerating, videoUrl,
          videoDuration, logs, pending, ffmpegRef, isMountedRef, mounted, fetches,
          runs, instances, files, objectUrls, fnArg, fnRet>>

compVars == <<updates, loadingUpdates, error, narration, isGenerating,
              videoUrl, videoDuration, logs, pending, ffmpegRef, isMountedRef,
              mounted, fetches, runs, instances, files, objectUrls>>

Null == <<>>
Some(v) == <<v>>
IsNull(x) == x = <<>>
Val(x) == x[1]

Max(a, b) == IF a >= b THEN a ELSE b
Min(a, b) == IF a <= b THEN a ELSE b

Last(s) == s[Len(s)]

(***************************************************************************)
(* Program constants.                                                      *)
(***************************************************************************)
ITEMS_LIMIT == 10
MIN_VIDEO_DURATION_SECONDS == 240
FALLBACK_SLIDE_DURATION == 40
SUMMARY_CAP == 600
LOG_WINDOW == 120
sampleRate == 44100
channels == 1
bytesPerSample == 2
WAV_HEADER_BYTES == 44

MSG_UNABLE == "Unable to fetch updates right now."
MSG_NO_FRESH == "No fresh updates available. Try again shortly."
MSG_PRECONDITION == "Fetch the latest India updates before generating a video."
MSG_CANVAS == "Failed to initialise canvas rendering context."

(***************************************************************************)
(* Bounds of the model.                                                    *)
(***************************************************************************)
MaxItemCount == 50        \* item counts the planner is checked on
MaxSilenceSeconds == 400  \* durations the silence generator is checked on
MaxSlides == 4            \* slide lists the manifest builder is checked on
MaxFeed == 12             \* raw records in a feed the normalizer is checked on
MaxDropped == 3           \* of which this many may be ineligible
MinFeedItems == 2         \* eligible records in the short feed the component fetches
MaxFeedItems == 6         \* eligible records in the full feed it fetches
MaxRuns == 2              \* generation runs started in one behaviour
MaxBodyLen == 603         \* characters of body text the summary is checked on
MaxTitleLen == 540        \* characters of title the fallback summary is checked on
MaxTextLen == 4           \* characters of a text the line wrapper is checked on
MaxGlyphWidth == 2        \* widest glyph, in units, of the fonts it is checked in
MaxKerning == 1           \* most units a pair of glyphs is drawn closer by
MaxWidth == 3             \* widest line, in units, it is checked on
MaxLines == 2             \* most lines it is checked on
MaxLogBurst == 122        \* log messages the encoder emits per run

(***************************************************************************)
(* Duration planner.                                                       *)
(***************************************************************************)
\* Math.ceil(a / b) for integers a >= 0, b >= 1
CeilDiv(a, b) == (a + b - 1) \div b

\* perSlideDuration of handleGenerateVideo, lines 213-216
PerSlideDurationFallbackOnly(n) == FALLBACK_SLIDE_DURATION
PerSlideDurationMin(n) ==
    Min(CeilDiv(MIN_VIDEO_DURATION_SECONDS, n), FALLBACK_SLIDE_DURATION)
PerSlideDuration(n) ==
    Max(CeilDiv(MIN_VIDEO_DURATION_SECONDS, n), FALLBACK_SLIDE_DURATION)

\* the plan of a run over n items, lines 213-217
RunPlanPerSlideAsFinal(n) ==
    LET perSlideDuration == PerSlideDuration(n)
    IN  [perSlideDuration |-> perSlideDuration,
         finalDuration |-> perSlideDuration]
RunPlan(n) ==
    LET perSlideDuration == PerSlideDuration(n)
    IN  [perSlideDuration |-> perSlideDuration,
         finalDuration |-> perSlideDuration * n]

\* the totalDuration memo, lines 136-145
TotalDurationMemo(n) ==
    IF n = 0 THEN 0
    ELSE Max(CeilDiv(MIN_VIDEO_DURATION_SECONDS, n), FALLBACK_SLIDE_DURATION)
         * n

(***************************************************************************)
(* Concatenation manifest.  The script is the sequence of its lines (the   *)
(* text the code joins with newlines).                                     *)
(***************************************************************************)
\* `slide-${index}.png`, line 223
SlideName(index) == "slide-" \o ToString(index) \o ".png"

\* `file '${name}'`, lines 621 and 627
FileLine(name) == "file '" \o name \o "'"

\* `duration ${durationSeconds}`, line 622
DurationLine(durationSeconds) == "duration " \o ToString(durationSeconds)

\* slideNames.map(...).join("\n"), lines 618-624
RECURSIVE ConcatBody(_, _)
ConcatBody(slideNames, durationSeconds) ==
    IF slideNames = <<>> THEN <<>>
    ELSE <<FileLine(Head(slideNames)), DurationLine(durationSeconds)>>
         \o ConcatBody(Tail(slideNames), durationSeconds)

\* buildConcatScript, lines 617-628 (of no slide: an empty body line and
\* the name undefined)
buildConcatScriptNoTrailer(slideNames, durationSeconds) ==
    ConcatBody(slideNames, durationSeconds)
buildConcatScript(slideNames, durationSeconds) ==
    IF slideNames = <<>>
    THEN <<"", FileLine("undefined")>>
    ELSE ConcatBody(slideNames, durationSeconds)
         \o <<FileLine(Last(slideNames))>>

(***************************************************************************)
(* Silent track.  An ArrayBuffer is its byte length and the bytes written  *)
(* into it; a byte never written reads as 0.                               *)
(***************************************************************************)
NewArrayBuffer(n) == [byteLength |-> n, written |-> <<>>]

\* reading a byte of the buffer (a Uint8Array over it)
ByteAt(buf, i) == IF i \in DOMAIN buf.written THEN buf.written[i] ELSE 0

\* DataView.setUint8
setUint8(buf, offset, value) ==
    [buf EXCEPT !.written = (offset :> (value % 256)) @@ @]

\* DataView.setUint16(offset, value, true): little-endian, value mod 2^16
setUint16(buf, offset, value) ==
    LET v == value % 65536
    IN  setUint8(setUint8(buf, offset, v % 256), offset + 1, v \div 256)

\* DataView.setUint32(offset, value, true): the low 32 bits of the value,
\* least significant byte first (the values here are below 2^31)
setUint32BigEndian(buf, offset, value) ==
    setUint8(setUint8(setUint8(setUint8(buf,
        offset + 3, value % 256),
        offset + 2, (value \div 256) % 256),
        offset + 1, (value \div 65536) % 256),
        offset, (value \div 16777216) % 256)
setUint32(buf, offset, value) ==
    setUint8(setUint8(setUint8(setUint8(buf,
        offset, value % 256),
        offset + 1, (value \div 256) % 256),
        offset + 2, (value \div 65536) % 256),
        offset + 3, (value \div 16777216) % 256)

\* String.charCodeAt for the characters the header uses
charCodeAt(c) ==
    CASE c = "R" -> 82  [] c = "I" -> 73  [] c = "F" -> 70  [] c = "W" -> 87
      [] c = "A" -> 65  [] c = "V" -> 86  [] c = "E" -> 69  [] c = "f" -> 102
      [] c = "m" -> 109 [] c = "t" -> 116 [] c = " " -> 32  [] c = "d" -> 100
      [] c = "a" -> 97

\* writeString, lines 656-660
RECURSIVE writeString(_, _, _)
writeString(buf, offset, value) ==
    IF value = <<>> THEN buf
    ELSE writeString(setUint8(buf, offset, charCodeAt(Head(value))),
                     offset + 1, Tail(value))

\* generateSilenceWav, lines 630-654
generateSilenceWav(durationSeconds) ==
    LET totalSamples == durationSeconds * sampleRate
        dataLength == totalSamples * bytesPerSample * channels
        b0  == NewArrayBuffer(WAV_HEADER_BYTES + dataLength)
        b1  == writeString(b0, 0, <<"R", "I", "F", "F">>)
        b2  == setUint32(b1, 4, 36 + dataLength)
        b3  == writeString(b2, 8, <<"W", "A", "V", "E">>)
        b4  == writeString(b3, 12, <<"f", "m", "t", " ">>)
        b5  == setUint32(b4, 16, 16)
        b6  == setUint16(b5, 20, 1)
        b7  == setUint16(b6, 22, channels)
        b8  == setUint32(b7, 24, sampleRate)
        b9  == setUint32(b8, 28, sampleRate * channels * bytesPerSample)
        b10 == setUint16(b9, 32, channels * bytesPerSample)
        b11 == setUint16(b10, 34, bytesPerSample * 8)
        b12 == writeString(b11, 36, <<"d", "a", "t", "a">>)
        b13 == setUint32(b12, 40, dataLength)
    IN  b13

(***************************************************************************)
(* Content normalizer.  A listing child is [data |-> null or a post]; a    *)
(* post is [id, title, selftext, author, stickied, over_18].  A missing or  *)
(* empty id is 0.                                                          *)
(***************************************************************************)
\* Boolean(post?.id), line 66
HasId(child) == ~IsNull(child.data) /\ Val(child.data).id # 0

\* !post.stickied && !post.over_18, line 67
KeepsPost(post) == ~post.stickied /\ ~post.over_18

\* .slice(0, n) of a sequence
SliceFrom0(s, n) == SubSeq(s, 1, Min(n, Len(s)))

\* the white space of String.trim, line 70, and of /\s/, line 566: the
\* ECMAScript WhiteSpace and LineTerminator code points, those outside the
\* escapes of a TLA+ string written by their code points
WhiteSpace ==
    {" ", "\t", "\n", "\r", "\f", "U+000B", "U+00A0", "U+1680", "U+2000",
     "U+2001", "U+2002", "U+2003", "U+2004", "U+2005", "U+2006", "U+2007",
     "U+2008", "U+2009", "U+200A", "U+2028", "U+2029", "U+202F", "U+205F",
     "U+3000", "U+FEFF"}

\* String.trim on a sequence of characters
IsSpace(c) == c \in WhiteSpace
RECURSIVE TrimStart(_)
TrimStart(s) ==
    IF s # <<>> /\ IsSpace(Head(s)) THEN TrimStart(Tail(s)) ELSE s
RECURSIVE TrimEnd(_)
TrimEnd(s) ==
    IF s # <<>> /\ IsSpace(Last(s)) THEN TrimEnd(SubSeq(s, 1, Len(s) - 1))
    ELSE s
Trim(s) == TrimEnd(TrimStart(s))

\* title.replace(/\.$/, ""), line 73
StripTrailingPeriodKeepsIt(s) == s
StripTrailingPeriod(s) ==
    IF s # <<>> /\ Last(s) = "." THEN SubSeq(s, 1, Len(s) - 1) ELSE s

FALLBACK_PREFIX == <<"S", "t", "a", "y", " ", "i", "n", "f", "o", "r", "m",
                     "e", "d", ":", " ">>
FALLBACK_SUFFIX == <<".", " ", "F", "o", "r", " ", "t", "h", "e", " ", "f",
                     "u", "l", "l", " ", "c", "o", "n", "t", "e", "x", "t",
                     ",", " ", "v", "i", "s", "i", "t", " ", "t", "h", "e",
                     " ", "l", "i", "n", "k", "e", "d", " ", "a", "r", "t",
                     "i", "c", "l", "e", ".">>

\* the summary of a post, lines 70-73 and 78
SummaryOfCutAtCap(post) ==
    LET summarySource == Trim(post.selftext)
        summary == IF summarySource # <<>> THEN summarySource
                   ELSE FALLBACK_PREFIX \o StripTrailingPeriod(post.title)
                        \o FALLBACK_SUFFIX
    IN  IF Len(summary) > SUMMARY_CAP
        THEN SubSeq(summary, 1, SUMMARY_CAP) \o <<".", ".", ".">>
        ELSE summary
SummaryOf(post) ==
    LET summarySource == Trim(post.selftext)
        summary == IF summarySource # <<>> THEN summarySource
                   ELSE FALLBACK_PREFIX \o StripTrailingPeriod(post.title)
                        \o FALLBACK_SUFFIX
    IN  IF Len(summary) > SUMMARY_CAP
        THEN SubSeq(summary, 1, SUMMARY_CAP - 3) \o <<".", ".", ".">>
        ELSE summary

\* the map of a post to an IndiaUpdate, lines 69-87
ToUpdate(post) ==
    [id |-> post.id, title |-> post.title, summary |-> SummaryOf(post),
     author |-> post.author]

RECURSIVE MapSeq(_, _)
MapSeq(Op(_), s) ==
    IF s = <<>> THEN <<>> ELSE <<Op(Head(s))>> \o MapSeq(Op, Tail(s))

PostOf(child) == Val(child.data)

\* the item list GET builds from the listing's children, lines 64-87
NormalizeNoLimit(children) ==
    MapSeq(ToUpdate,
           SelectSeq(MapSeq(PostOf, SelectSeq(children, HasId)), KeepsPost))
Normalize(children) ==
    MapSeq(ToUpdate,
           SliceFrom0(
               SelectSeq(MapSeq(PostOf, SelectSeq(children, HasId)),
                         KeepsPost),
               ITEMS_LIMIT))

(***************************************************************************)
(* drawWrappedText, lines 557-596.  A text is a sequence of characters;    *)
(* the two characters outside ASCII are written by their code points.  The *)
(* canvas context is [measureText |-> the width it answers for each line]: *)
(* the canvas shapes a line as a whole (kerning, ligatures) in the font it *)
(* is set to.                                                              *)
(***************************************************************************)
ELLIPSIS == "U+2026"
MIDDOT == "U+00B7"

\* text.split(/\s+/), line 566: a separator before the first or after the
\* last character leaves an empty word there
RECURSIVE SplitFrom(_, _, _, _)
SplitFrom(text, i, word, words) ==
    IF i > Len(text) THEN Append(words, word)
    ELSE IF IsSpace(text[i])
    THEN IF i > 1 /\ IsSpace(text[i - 1])
         THEN SplitFrom(text, i + 1, word, words)
         ELSE SplitFrom(text, i + 1, <<>>, Append(words, word))
    ELSE SplitFrom(text, i + 1, Append(word, text[i]), words)
SplitOnSpace(text) == SplitFrom(text, 1, <<>>, <<>>)

\* context.measureText(line).width, line 572: what the canvas answers for
\* the line, shaped as a whole in the context's font
measureText(context, line) == context.measureText[line]

\* the loop of lines 570-579 and the push of lines 580-582
RECURSIVE WrapFrom(_, _, _, _, _)
WrapFrom(context, words, maxWidth, currentLine, lines) ==
    IF words = <<>>
    THEN IF currentLine # <<>> THEN Append(lines, currentLine) ELSE lines
    ELSE LET word == Head(words)
             testLine == IF currentLine # <<>>
                         THEN currentLine \o <<" ">> \o word ELSE word
         IN  IF measureText(context, testLine) > maxWidth
                /\ currentLine # <<>>
             THEN WrapFrom(context, Tail(words), maxWidth, word,
                           Append(lines, currentLine))
             ELSE WrapFrom(context, Tail(words), maxWidth, testLine, lines)

\* last.replace(/[.·]+$/, ""), line 588
RECURSIVE StripFinalDots(_)
StripFinalDots(line) ==
    IF line # <<>> /\ Last(line) \in {".", MIDDOT}
    THEN StripFinalDots(SubSeq(line, 1, Len(line) - 1)) ELSE line

\* lines 584-589
Truncate(lines, maxLines) ==
    IF Len(lines) > maxLines
    THEN LET truncated == SubSeq(lines, 1, maxLines)
         IN  [truncated EXCEPT ![maxLines] =
                  StripFinalDots(@) \o <<ELLIPSIS>>]
    ELSE lines

\* drawWrappedText: the fillText calls it makes, lines 591-593, and the
\* value it returns, line 595
drawWrappedText(context, text, x, y, maxWidth, lineHeight, maxLines) ==
    LET lines == WrapFrom(context, SplitOnSpace(text), maxWidth, <<>>, <<>>)
        truncated == Truncate(lines, maxLines)
    IN  [fillText |-> [index \in 1..Len(truncated) |->
                          [line |-> truncated[index], x |-> x,
                           y |-> y + (index - 1) * lineHeight]],
         returned |-> y + Len(truncated) * lineHeight]

(***************************************************************************)
(* The route: GET on the reply of the upstream feed.  A reply is           *)
(* [threw, status, parses, children]: the upstream fetch threw, or         *)
(* answered with a status and a body that is JSON or not, of               *)
(* (payload.data?.children) the listing's children or null.                *)
(***************************************************************************)
\* Response.ok
StatusOk(status) == status >= 200 /\ status <= 299

\* the statuses a Response with a body cannot have
NullBodyStatus == {101, 204, 205, 304}

\* NextResponse.json(body, {status}) throws, lines 55-58: a RangeError on a
\* status outside 200..599, a TypeError on a null-body status
ResponseInitThrows(status) ==
    status < 200 \/ status > 599 \/ status \in NullBodyStatus

\* GET, lines 40-97: the response the client receives
GET(reply) ==
    IF reply.threw
    THEN [rejected |-> FALSE, ok |-> FALSE, status |-> 500, items |-> Null]
    ELSE IF ~StatusOk(reply.status)
    THEN [rejected |-> FALSE, ok |-> FALSE,
          status |-> IF ResponseInitThrows(reply.status) THEN 500
                     ELSE reply.status,
          items |-> Null]
    ELSE IF ~reply.parses
    THEN [rejected |-> FALSE, ok |-> FALSE, status |-> 500, items |-> Null]
    ELSE [rejected |-> FALSE, ok |-> TRUE, status |-> 200,
          items |-> Some(Normalize(IF IsNull(reply.children) THEN <<>>
                                   ELSE Val(reply.children)))]

(***************************************************************************)
(* The feeds the component is run against: a batch b of k eligible posts,   *)
(* optionally led by a pinned one.                                         *)
(***************************************************************************)

FeedPost(b, i) ==
    [id |-> b * 100 + i,
     title |-> IF b = 1 THEN <<"A", ".">> ELSE <<"B">>,
     selftext |-> IF i = 1 THEN <<"U+00A0">> ELSE <<" ", "x", "\r", "\n">>,
     author |-> "author" \o ToString(i),
     stickied |-> FALSE, over_18 |-> FALSE]

PinnedPost(b) == [FeedPost(b, 99) EXCEPT !.stickied = TRUE]

Feed(b, k, pinned) ==
    (IF pinned THEN <<[data |-> Some(PinnedPost(b))]>> ELSE <<>>)
    \o [i \in 1..k |-> [data |-> Some(FeedPost(b, i))]]

\* the upstream fetch throws; answers 429; answers 304; answers 600; answers
\* 200 with a body that is not JSON, with no data, with only a pinned post, with a
\* short feed, with a full one
UpstreamReplies ==
    {[threw |-> TRUE, status |-> 0, parses |-> FALSE, children |-> Null],
     [threw |-> FALSE, status |-> 429, parses |-> TRUE, children |-> Null],
     [threw |-> FALSE, status |-> 304, parses |-> FALSE, children |-> Null],
     [threw |-> FALSE, status |-> 600, parses |-> TRUE, children |-> Null],
     [threw |-> FALSE, status |-> 200, parses |-> FALSE, children |-> Null],
     [threw |-> FALSE, status |-> 200, parses |-> TRUE, children |-> Null],
     [threw |-> FALSE, status |-> 200, parses |-> TRUE,
      children |-> Some(Feed(1, 0, TRUE))],
     [threw |-> FALSE, status |-> 200, parses |-> TRUE,
      children |-> Some(Feed(1, MinFeedItems, TRUE))],
     [threw |-> FALSE, status |-> 200, parses |-> TRUE,
      children |-> Some(Feed(2, MaxFeedItems, FALSE))]}

(***************************************************************************)
(* The Home component.                                                     *)
(***************************************************************************)
MSG_NETWORK == "Failed to fetch"
MSG_ENCODER == "the message of an error the encoder threw"
MSG_JSON == "the message of the SyntaxError response.json() threw"

\* buildNarration, lines 598-615: one paragraph per item, in order
RECURSIVE NarrationFrom(_, _)
NarrationFrom(items, index) ==
    IF items = <<>> THEN <<>>
    ELSE <<[story |-> index + 1, title |-> Head(items).title,
            summary |-> Head(items).summary, author |-> Head(items).author]>>
         \o NarrationFrom(Tail(items), index + 1)
buildNarration(items) == NarrationFrom(items, 0)

\* a text the user types into the narration box, line 358
EditedNarration ==
    <<[story |-> 0, title |-> <<>>, summary |-> <<"e">>, author |-> "user"]>>

RemoveAt(s, i) == SubSeq(s, 1, i - 1) \o SubSeq(s, i + 1, Len(s))

\* next.slice(-n)
SliceLastKeepsOldest(s, n) == SubSeq(s, 1, Min(n, Len(s)))
SliceLast(s, n) == SubSeq(s, Max(1, Len(s) - n + 1), Len(s))

\* URL.revokeObjectURL
Revoke(urls, u) == [urls EXCEPT ![u] = @ + 1]

NoOutcome == [rejected |-> FALSE, ok |-> FALSE, status |-> 0, items |-> Null]

\* nothing queued: for each state variable, null or the value a setter
\* called outside an event handler has queued for the next render
NoPending ==
    [updates |-> Null, loadingUpdates |-> Null, error |-> Null,
     narration |-> Null, isGenerating |-> Null, videoUrl |-> Null,
     videoDuration |-> Null, logs |-> Null]

\* the value the next render gives a state variable: the one queued for it,
\* or else the one it has
Queued(field, rendered) ==
    IF IsNull(pending[field]) THEN rendered ELSE Val(pending[field])

CompInit ==
    /\ updates = <<>>
    /\ loadingUpdates = FALSE
    /\ error = Null
    /\ narration = <<>>
    /\ isGenerating = FALSE
    /\ videoUrl = Null
    /\ videoDuration = Null
    /\ logs = <<>>
    /\ pending = NoPending
    /\ ffmpegRef = Null
    /\ isMountedRef = TRUE
    /\ mounted = TRUE
    /\ fetches = <<>>
    /\ runs = <<>>
    /\ instances = 0
    /\ files = <<>>
    /\ objectUrls = <<>>

\* the fetch button's disabled attribute, line 306
FetchDisabled == loadingUpdates \/ isGenerating

\* the generate button's disabled attribute, line 377
GenerateDisabledNoInFlight == Len(updates) = 0
GenerateDisabled == isGenerating \/ Len(updates) = 0

\* fetchUpdates up to its first await, lines 147-151; the setters of an
\* event handler are rendered as the handler returns, and they come after
\* whatever is queued for the same variables
fetchUpdates ==
    /\ mounted
    /\ loadingUpdates' = TRUE
    /\ error' = Null
    /\ pending' = [pending EXCEPT !.loadingUpdates = Null, !.error = Null]
    /\ fetches' = Append(fetches, [pc |-> "fetch", reply |-> Null,
                                   outcome |-> NoOutcome])
    /\ UNCHANGED <<updates, narration, isGenerating, videoUrl, videoDuration,
                   logs, ffmpegRef, isMountedRef, mounted, runs, instances,
                   files, objectUrls, fnArg, fnRet>>

\* the client's fetch("/api/india-news") rejects: no response at all
FetchRejects(f) ==
    /\ fetches[f].pc = "fetch"
    /\ fetches' = [fetches EXCEPT ![f] =
          [pc |-> "settled", reply |-> Null,
           outcome |-> [NoOutcome EXCEPT !.rejected = TRUE]]]
    /\ UNCHANGED <<updates, loadingUpdates, error, narration, isGenerating,
                   videoUrl, videoDuration, logs, pending, ffmpegRef,
                   isMountedRef, mounted, runs, instances, files, objectUrls,
                   fnArg, fnRet>>

\* the route answers the client's fetch
FetchResponds(f, reply) ==
    /\ fetches[f].pc = "fetch"
    /\ fetches' = [fetches EXCEPT ![f] =
          [pc |-> "settled", reply |-> Some(reply), outcome |-> GET(reply)]]
    /\ UNCHANGED <<updates, loadingUpdates, error, narration, isGenerating,
                   videoUrl, videoDuration, logs, pending, ffmpegRef,
                   isMountedRef, mounted, runs, instances, files, objectUrls,
                   fnArg, fnRet>>

\* what fetchUpdates throws on the outcome of its fetch, lines 151-154: null
\* when nothing
FetchErrorNoOkCheck(outcome) ==
    IF outcome.rejected THEN Some(MSG_NETWORK) ELSE Null
FetchError(outcome) ==
    IF outcome.rejected THEN Some(MSG_NETWORK)
    ELSE IF ~outcome.ok THEN Some(MSG_UNABLE)
    ELSE Null

\* what it throws on the payload, lines 157-159
PayloadError(outcome) ==
    IF IsNull(outcome.items) \/ Len(Val(outcome.items)) = 0
    THEN Some(MSG_NO_FRESH)
    ELSE Null

\* the catch and finally of fetchUpdates, lines 164-173; a state setter of
\* an unmounted component does nothing
FetchFails(f, message) ==
    /\ fetches' = RemoveAt(fetches, f)
    /\ pending' = IF mounted
                  THEN [pending EXCEPT !.error = Some(Some(message)),
                                       !.loadingUpdates = Some(FALSE)]
                  ELSE pending
    /\ UNCHANGED <<updates, loadingUpdates, error, narration, isGenerating,
                   videoUrl, videoDuration, logs, ffmpegRef, isMountedRef,
                   mounted, runs, instances, files, objectUrls, fnArg, fnRet>>

\* fetchUpdates from its first await to its second, lines 151-155
FetchContinues(f) ==
    /\ fetches[f].pc = "settled"
    /\ LET thrown == FetchError(fetches[f].outcome)
       IN  IF IsNull(thrown)
           THEN /\ fetches' = [fetches EXCEPT ![f].pc = "json"]
                /\ UNCHANGED <<updates, loadingUpdates, error, narration,
                               isGenerating, videoUrl, videoDuration, logs,
                               pending, ffmpegRef, isMountedRef, mounted,
                               runs, instances, files, objectUrls, fnArg,
                               fnRet>>
           ELSE FetchFails(f, Val(thrown))

\* response.json() resolves: lines 155-163 and the finally, 172-173
PayloadResolves(f) ==
    /\ fetches[f].pc = "json"
    /\ LET thrown == PayloadError(fetches[f].outcome)
           items == Val(fetches[f].outcome.items)
       IN  IF IsNull(thrown)
           THEN /\ fetches' = RemoveAt(fetches, f)
                /\ pending' =
                      IF mounted
                      THEN [pending EXCEPT
                              !.updates = Some(items),
                              !.narration = Some(buildNarration(items)),
                              !.loadingUpdates = Some(FALSE)]
                      ELSE pending
                /\ UNCHANGED <<updates, loadingUpdates, error, narration,
                               isGenerating, videoUrl, videoDuration, logs,
                               ffmpegRef, isMountedRef, mounted, runs,
                               instances, files, objectUrls, fnArg, fnRet>>
           ELSE FetchFails(f, Val(thrown))

\* response.json() rejects: the body the client received is not JSON
PayloadRejects(f) == fetches[f].pc = "json" /\ FetchFails(f, MSG_JSON)

\* onChange of the narration box, line 358
EditNarration ==
    /\ mounted
    /\ narration # EditedNarration
    /\ narration' = EditedNarration
    /\ pending' = [pending EXCEPT !.narration = Null]
    /\ UNCHANGED <<updates, loadingUpdates, error, isGenerating, videoUrl,
                   videoDuration, logs, ffmpegRef, isMountedRef, mounted,
                   fetches, runs, instances, files, objectUrls, fnArg, fnRet>>

(***************************************************************************)
(* A generation run: one call of handleGenerateVideo.  Its record holds    *)
(* what the call closed over (updates, videoUrl, as last rendered), its    *)
(* local variables and the await it is suspended at:                       *)
(*   load          await instance.load()             (ensureFFmpeg, 196)   *)
(*   render        await renderSlide(...)            (224)                 *)
(*   writeSlide    await ffmpeg.FS("writeFile", slideName, ...)  (225)     *)
(*   writeManifest await ffmpeg.FS("writeFile", "slides.txt", ...) (231)   *)
(*   writeSilence  await ffmpeg.FS("writeFile", "silence.wav", ...) (239)  *)
(*   exec          await ffmpeg.run(...)             (242)                 *)
(*   done, failed  returned                                                *)
(***************************************************************************)
Active(run) == run.pc \notin {"done", "failed"}

NewRun(instance, at) ==
    [pc |-> at, updates |-> updates, videoUrl |-> videoUrl,
     ffmpeg |-> instance, index |-> 0, slideNames |-> <<>>,
     perSlideDuration |-> 0, finalDuration |-> 0, slideData |-> Null,
     concatScript |-> <<>>, silence |-> Null, emitted |-> 0, url |-> Null]

\* a run that has returned: its locals are gone; the videoUrl it closed
\* over and the encoder it used are kept, and of a run that made a video
\* also the items, the plan and the object URL
Returned(run, how, url) ==
    [pc |-> how, updates |-> IF how = "done" THEN run.updates ELSE <<>>,
     videoUrl |-> run.videoUrl, ffmpeg |-> run.ffmpeg, index |-> 0,
     slideNames |-> <<>>,
     perSlideDuration |-> IF how = "done" THEN run.perSlideDuration ELSE 0,
     finalDuration |-> IF how = "done" THEN run.finalDuration ELSE 0,
     slideData |-> Null, concatScript |-> <<>>, silence |-> Null,
     emitted |-> 0, url |-> url]

\* lines 213-224: the plan, then the first renderSlide call
Planned(run) ==
    LET plan == RunPlan(Len(run.updates))
    IN  [run EXCEPT !.pc = "render",
                    !.perSlideDuration = plan.perSlideDuration,
                    !.finalDuration = plan.finalDuration]

\* the picture renderSlide(update, index, total) draws, lines 472-555
SlideOf(update, index, total) ==
    [label |-> <<index + 1, total>>, title |-> update.title,
     summary |-> update.summary, id |-> update.id]

\* ffmpeg.FS("writeFile", name, data) on the file system of an instance
WriteFile(fs, instance, name, data) ==
    [fs EXCEPT ![instance] = (name :> data) @@ @]

\* what ffmpeg.run(...) leaves in output.mp4, lines 242-263: the slides of
\* the manifest (-f concat -i slides.txt) muxed with the track (-i silence.wav)
Encoded(fs) ==
    [manifest |-> fs["slides.txt"], audioBytes |-> fs["silence.wav"].byteLength]

\* handleGenerateVideo up to its first suspension, lines 201-211 (with
\* ensureFFmpeg up to instance.load(), lines 176-196); the setters of an
\* event handler are rendered as the handler returns
handleGenerateVideoLateGuard ==
    /\ mounted
    /\ pending' = [pending EXCEPT !.isGenerating = Null, !.error = Null,
                                  !.logs = Null]
    /\ IF Len(updates) = 0
       THEN /\ isGenerating' = TRUE
            /\ logs' = <<>>
            /\ error' = Some(MSG_PRECONDITION)
            /\ UNCHANGED <<runs, instances, files>>
       ELSE /\ Len(runs) < MaxRuns
            /\ isGenerating' = TRUE
            /\ error' = Null
            /\ logs' = <<>>
            /\ IF ~IsNull(ffmpegRef)
               THEN /\ runs' = Append(runs,
                                 Planned(NewRun(Val(ffmpegRef), "load")))
                    /\ UNCHANGED <<instances, files>>
               ELSE /\ instances' = instances + 1
                    /\ files' = Append(files, <<>>)
                    /\ runs' = Append(runs, NewRun(instances + 1, "load"))
    /\ UNCHANGED <<updates, loadingUpdates, narration, videoUrl,
                   videoDuration, ffmpegRef, isMountedRef, mounted, fetches,
                   objectUrls, fnArg, fnRet>>
handleGenerateVideoRevokingFirst ==
    /\ mounted
    /\ IF Len(updates) = 0
       THEN /\ error' = Some(MSG_PRECONDITION)
            /\ pending' = [pending EXCEPT !.error = Null]
            /\ UNCHANGED <<isGenerating, logs, runs, instances, files,
                           objectUrls>>
       ELSE /\ Len(runs) < MaxRuns
            /\ isGenerating' = TRUE
            /\ error' = Null
            /\ logs' = <<>>
            /\ pending' = [pending EXCEPT !.isGenerating = Null,
                                          !.error = Null, !.logs = Null]
            /\ objectUrls' = IF IsNull(videoUrl) THEN objectUrls
                             ELSE Revoke(objectUrls, Val(videoUrl))
            /\ IF ~IsNull(ffmpegRef)
               THEN /\ runs' = Append(runs,
                                 Planned(NewRun(Val(ffmpegRef), "load")))
                    /\ UNCHANGED <<instances, files>>
               ELSE /\ instances' = instances + 1
                    /\ files' = Append(files, <<>>)
                    /\ runs' = Append(runs, NewRun(instances + 1, "load"))
    /\ UNCHANGED <<updates, loadingUpdates, narration, videoUrl,
                   videoDuration, ffmpegRef, isMountedRef, mounted, fetches,
                   fnArg, fnRet>>
handleGenerateVideoNoMemo ==
    /\ mounted
    /\ IF Len(updates) = 0
       THEN /\ error' = Some(MSG_PRECONDITION)
            /\ pending' = [pending EXCEPT !.error = Null]
            /\ UNCHANGED <<isGenerating, logs, runs, instances, files>>
       ELSE /\ Len(runs) < MaxRuns
            /\ isGenerating' = TRUE
            /\ error' = Null
            /\ logs' = <<>>
            /\ pending' = [pending EXCEPT !.isGenerating = Null,
                                          !.error = Null, !.logs = Null]
            /\ instances' = instances + 1
            /\ files' = Append(files, <<>>)
            /\ runs' = Append(runs, NewRun(instances + 1, "load"))
    /\ UNCHANGED <<updates, loadingUpdates, narration, videoUrl,
                   videoDuration, ffmpegRef, isMountedRef, mounted, fetches,
                   objectUrls, fnArg, fnRet>>
handleGenerateVideo ==
    /\ mounted
    /\ IF Len(updates) = 0
       THEN /\ error' = Some(MSG_PRECONDITION)
            /\ pending' = [pending EXCEPT !.error = Null]
            /\ UNCHANGED <<isGenerating, logs, runs, instances, files>>
       ELSE /\ Len(runs) < MaxRuns
            /\ isGenerating' = TRUE
            /\ error' = Null
            /\ logs' = <<>>
            /\ pending' = [pending EXCEPT !.isGenerating = Null,
                                          !.error = Null, !.logs = Null]
            /\ IF ~IsNull(ffmpegRef)
               THEN /\ runs' = Append(runs,
                                 Planned(NewRun(Val(ffmpegRef), "load")))
                    /\ UNCHANGED <<instances, files>>
               ELSE /\ instances' = instances + 1
                    /\ files' = Append(files, <<>>)
                    /\ runs' = Append(runs, NewRun(instances + 1, "load"))
    /\ UNCHANGED <<updates, loadingUpdates, narration, videoUrl,
                   videoDuration, ffmpegRef, isMountedRef, mounted, fetches,
                   objectUrls, fnArg, fnRet>>

\* the catch and finally of handleGenerateVideo, lines 277-288
RunFails(r, message) ==
    /\ runs' = [runs EXCEPT ![r] = Returned(@, "failed", Null)]
    /\ pending' = IF mounted
                  THEN [pending EXCEPT
                          !.error = Some(Some(message)),
                          !.isGenerating = IF isMountedRef THEN Some(FALSE)
                                           ELSE @]
                  ELSE pending
    /\ UNCHANGED <<updates, loadingUpdates, error, narration, isGenerating,
                   videoUrl, videoDuration, logs, ffmpegRef, isMountedRef,
                   mounted, fetches, instances, files, objectUrls, fnArg,
                   fnRet>>

\* a step of the run that only moves it on and writes the encoder's files
RunMoves(r, run, fs) ==
    /\ runs' = [runs EXCEPT ![r] = run]
    /\ files' = fs
    /\ UNCHANGED <<updates, loadingUpdates, error, narration, isGenerating,
                   videoUrl, videoDuration, logs, pending, ffmpegRef,
                   isMountedRef, mounted, fetches, instances, objectUrls,
                   fnArg, fnRet>>

\* instance.load() resolves: lines 196-198, then 213-224
LoadResolves(r) ==
    /\ runs[r].pc = "load"
    /\ ffmpegRef' = Some(runs[r].ffmpeg)
    /\ runs' = [runs EXCEPT ![r] = Planned(@)]
    /\ UNCHANGED <<updates, loadingUpdates, error, narration, isGenerating,
                   videoUrl, videoDuration, logs, pending, isMountedRef,
                   mounted, fetches, instances, files, objectUrls, fnArg,
                   fnRet>>

LoadRejects(r) == runs[r].pc = "load" /\ RunFails(r, MSG_ENCODER)

\* renderSlide resolves, line 224, and the slide's write is issued, line 225
RenderResolves(r) ==
    LET run == runs[r]
    IN  /\ run.pc = "render"
        /\ RunMoves(r, [run EXCEPT
                 !.pc = "writeSlide",
                 !.slideData = Some(SlideOf(run.updates[run.index + 1],
                                            run.index, Len(run.updates)))],
               files)

\* renderSlide throws (no 2d context, line 482)
RenderRejects(r) == runs[r].pc = "render" /\ RunFails(r, MSG_CANVAS)

\* the slide's write returns: lines 225-227, then the next slide (224) or
\* the manifest (230-235)
WriteSlideResolvesUnawaited(r) ==
    LET run == runs[r]
        slideName == SlideName(run.index)
        names == Append(run.slideNames, slideName)
        next == run.index + 1
        pushed == [run EXCEPT !.slideNames = names, !.index = next,
                              !.slideData = Null]
    IN  /\ run.pc = "writeSlide"
        /\ RunMoves(r,
               IF next < Len(run.updates)
               THEN [pushed EXCEPT !.pc = "render"]
               ELSE [pushed EXCEPT
                       !.pc = "writeManifest",
                       !.concatScript =
                           buildConcatScript(names, run.perSlideDuration)],
               files)
WriteSlideResolves(r) ==
    LET run == runs[r]
        slideName == SlideName(run.index)
        names == Append(run.slideNames, slideName)
        next == run.index + 1
        pushed == [run EXCEPT !.slideNames = names, !.index = next,
                              !.slideData = Null]
    IN  /\ run.pc = "writeSlide"
        /\ RunMoves(r,
               IF next < Len(run.updates)
               THEN [pushed EXCEPT !.pc = "render"]
               ELSE [pushed EXCEPT
                       !.pc = "writeManifest",
                       !.concatScript =
                           buildConcatScript(names, run.perSlideDuration)],
               WriteFile(files, run.ffmpeg, slideName, Val(run.slideData)))

WriteSlideRejects(r) == runs[r].pc = "writeSlide" /\ RunFails(r, MSG_ENCODER)

\* the manifest's write returns: lines 231-235, then the silence (238-239)
WriteManifestResolves(r) ==
    LET run == runs[r]
    IN  /\ run.pc = "writeManifest"
        /\ RunMoves(r,
               [run EXCEPT !.pc = "writeSilence",
                           !.silence =
                               Some(generateSilenceWav(run.finalDuration))],
               WriteFile(files, run.ffmpeg, "slides.txt", run.concatScript))

WriteManifestRejects(r) ==
    runs[r].pc = "writeManifest" /\ RunFails(r, MSG_ENCODER)

\* the silence's write returns: line 239, then the encoder is run (242)
WriteSilenceResolves(r) ==
    LET run == runs[r]
    IN  /\ run.pc = "writeSilence"
        /\ RunMoves(r, [run EXCEPT !.pc = "exec"],
               WriteFile(files, run.ffmpeg, "silence.wav", Val(run.silence)))

WriteSilenceRejects(r) ==
    runs[r].pc = "writeSilence" /\ RunFails(r, MSG_ENCODER)

\* the encoder, run by ffmpeg.run(..., "output.mp4"), lines 242-263, writes
\* its output
ExecWritesOutput(r) ==
    LET run == runs[r]
        fs == files[run.ffmpeg]
    IN  /\ run.pc = "exec"
        /\ IF "output.mp4" \in DOMAIN fs
           THEN fs["output.mp4"] # Encoded(fs) ELSE TRUE
        /\ RunMoves(r, run,
               WriteFile(files, run.ffmpeg, "output.mp4", Encoded(fs)))

\* ffmpeg.run rejects
ExecRejects(r) == runs[r].pc = "exec" /\ RunFails(r, MSG_ENCODER)

\* ffmpeg.run resolves and FS("readFile", "output.mp4") throws, line 265:
\* the encoder holds no such file
ReadThrows(r) ==
    /\ runs[r].pc = "exec"
    /\ "output.mp4" \notin DOMAIN files[runs[r].ffmpeg]
    /\ RunFails(r, MSG_ENCODER)

\* ffmpeg.run resolves and the file is read: lines 265-276 and the finally,
\* 284-288
ExecResolves(r) ==
    LET run == runs[r]
        url == Len(objectUrls) + 1
        created == Append(objectUrls, 0)
    IN  /\ run.pc = "exec"
        /\ "output.mp4" \in DOMAIN files[run.ffmpeg]
        /\ objectUrls' = IF IsNull(run.videoUrl) THEN created
                         ELSE Revoke(created, Val(run.videoUrl))
        /\ pending' =
              IF mounted
              THEN [pending EXCEPT
                      !.videoUrl = Some(Some(url)),
                      !.videoDuration = Some(Some(run.finalDuration)),
                      !.isGenerating = IF isMountedRef THEN Some(FALSE)
                                       ELSE @]
              ELSE pending
        /\ runs' = [runs EXCEPT ![r] = Returned(@, "done", Some(url))]
        /\ UNCHANGED <<updates, loadingUpdates, error, narration,
                       isGenerating, videoUrl, videoDuration, logs, ffmpegRef,
                       isMountedRef, mounted, fetches, instances, files,
                       fnArg, fnRet>>

\* the logger of lines 186-194, called by the encoder while it loads or
\* runs, for one of the first MaxLogBurst messages of a run; the updater of
\* setLogs is applied to the list as queued
EncoderEmits(r) ==
    LET run == runs[r]
        message == "line " \o ToString(run.emitted + 1)
    IN  /\ run.pc \in {"load", "exec"}
        /\ run.emitted < MaxLogBurst
        /\ runs' = [runs EXCEPT ![r].emitted = @ + 1]
        /\ pending' =
              IF isMountedRef
              THEN [pending EXCEPT !.logs =
                      Some(SliceLast(Append(Queued("logs", logs), message),
                                     LOG_WINDOW))]
              ELSE pending
        /\ UNCHANGED <<updates, loadingUpdates, error, narration,
                       isGenerating, videoUrl, videoDuration, logs, ffmpegRef,
                       isMountedRef, mounted, fetches, instances, files,
                       objectUrls, fnArg, fnRet>>

\* the component renders again with what the setters queued, lines 116-123;
\* when videoUrl has changed, the effect of lines 127-134 is cleaned up (with
\* the videoUrl of the render it was set up in) and set up again
Render ==
    /\ mounted
    /\ pending # NoPending
    /\ updates' = Queued("updates", updates)
    /\ loadingUpdates' = Queued("loadingUpdates", loadingUpdates)
    /\ error' = Queued("error", error)
    /\ narration' = Queued("narration", narration)
    /\ isGenerating' = Queued("isGenerating", isGenerating)
    /\ videoUrl' = Queued("videoUrl", videoUrl)
    /\ videoDuration' = Queued("videoDuration", videoDuration)
    /\ logs' = Queued("logs", logs)
    /\ pending' = NoPending
    /\ IF Queued("videoUrl", videoUrl) # videoUrl
       THEN /\ isMountedRef' = FALSE
            /\ objectUrls' = IF IsNull(videoUrl) THEN objectUrls
                             ELSE Revoke(objectUrls, Val(videoUrl))
       ELSE UNCHANGED <<isMountedRef, objectUrls>>
    /\ UNCHANGED <<ffmpegRef, mounted, fetches, runs, instances, files,
                   fnArg, fnRet>>

\* the component is removed: the cleanup of lines 128-133, of the last
\* render; what was queued is never rendered
Unmount ==
    /\ mounted
    /\ mounted' = FALSE
    /\ isMountedRef' = FALSE
    /\ objectUrls' = IF IsNull(videoUrl) THEN objectUrls
                     ELSE Revoke(objectUrls, Val(videoUrl))
    /\ pending' = NoPending
    /\ UNCHANGED <<updates, loadingUpdates, error, narration, isGenerating,
                   videoUrl, videoDuration, logs, ffmpegRef, fetches, runs,
                   instances, files, fnArg, fnRet>>

\* a click on the fetch button, lines 304-310
ClickFetch == ~FetchDisabled /\ fetchUpdates

\* a click on the generate button, lines 375-381
ClickGenerate == ~GenerateDisabled /\ handleGenerateVideo

Init == CompInit /\ fnArg = Null /\ fnRet = Null

RunNext ==
    \/ \E r \in DOMAIN runs : LoadResolves(r)
    \/ \E r \in DOMAIN runs : LoadRejects(r)
    \/ \E r \in DOMAIN runs : RenderResolves(r)
    \/ \E r \in DOMAIN runs : RenderRejects(r)
    \/ \E r \in DOMAIN runs : WriteSlideResolves(r)
    \/ \E r \in DOMAIN runs : WriteSlideRejects(r)
    \/ \E r \in DOMAIN runs : WriteManifestResolves(r)
    \/ \E r \in DOMAIN runs : WriteManifestRejects(r)
    \/ \E r \in DOMAIN runs : WriteSilenceResolves(r)
    \/ \E r \in DOMAIN runs : WriteSilenceRejects(r)
    \/ \E r \in DOMAIN runs : ExecWritesOutput(r)
    \/ \E r \in DOMAIN runs : ExecResolves(r)
    \/ \E r \in DOMAIN runs : ExecRejects(r)
    \/ \E r \in DOMAIN runs : ReadThrows(r)

FetchNext ==
    \/ \E f \in DOMAIN fetches : FetchRejects(f)
    \/ \E f \in DOMAIN fetches, reply \in UpstreamReplies :
           FetchResponds(f, reply)
    \/ \E f \in DOMAIN fetches : FetchContinues(f)
    \/ \E f \in DOMAIN fetches : PayloadResolves(f)
    \/ \E f \in DOMAIN fetches : PayloadRejects(f)

Next ==
    \/ ClickFetch
    \/ ClickGenerate
    \/ FetchNext
    \/ RunNext
    \/ EditNarration
    \/ Render
    \/ Unmount

\* the component driven through its buttons, with an encoder that emits no
\* log message (the logger is exercised in SpecLogs)
Spec == Init /\ [][Next]_vars

(***************************************************************************)
(* The component's handlers called as the core's operations, without the   *)
(* buttons in front of them: fetchUpdates and handleGenerateVideo at any   *)
(* time, one call of each in flight, against a route that answers with the *)
(* short feed or not at all.                                               *)
(***************************************************************************)
ShortFeedReply ==
    [threw |-> FALSE, status |-> 200, parses |-> TRUE,
     children |-> Some(Feed(1, MinFeedItems, TRUE))]

CallFetchUpdates ==
    /\ fetches = <<>>
    /\ fetchUpdates

CallGenerateVideo ==
    /\ \A r \in DOMAIN runs : ~Active(runs[r])
    /\ handleGenerateVideo

CoreNext ==
    \/ CallFetchUpdates
    \/ CallGenerateVideo
    \/ \E f \in DOMAIN fetches : FetchRejects(f)
    \/ \E f \in DOMAIN fetches : FetchResponds(f, ShortFeedReply)
    \/ \E f \in DOMAIN fetches : FetchContinues(f)
    \/ \E f \in DOMAIN fetches : PayloadResolves(f)
    \/ RunNext
    \/ Render

SpecCore == Init /\ [][CoreNext]_vars

(***************************************************************************)
(* The pure functions on their own: the argument is drawn in the initial   *)
(* state (or built record by record), the call puts the result in fnRet.   *)
(***************************************************************************)
\* the duration planner on an item count
InitPlan == CompInit /\ fnArg \in 0..MaxItemCount /\ fnRet = Null

CallRunPlan ==
    /\ IsNull(fnRet)
    /\ fnArg >= 1
    /\ fnRet' = Some([of |-> "handleGenerateVideo", plan |-> RunPlan(fnArg)])
    /\ UNCHANGED <<compVars, fnArg>>

CallTotalDuration ==
    /\ IsNull(fnRet)
    /\ fnRet' = Some([of |-> "totalDuration",
                      plan |-> [totalDuration |-> TotalDurationMemo(fnArg)]])
    /\ UNCHANGED <<compVars, fnArg>>

SpecPlan == InitPlan /\ [][CallRunPlan \/ CallTotalDuration]_vars

\* the silence generator on a duration
InitSilence == CompInit /\ fnArg \in 1..MaxSilenceSeconds /\ fnRet = Null

CallGenerateSilenceWav ==
    /\ IsNull(fnRet)
    /\ fnRet' = Some(generateSilenceWav(fnArg))
    /\ UNCHANGED <<compVars, fnArg>>

SpecSilence == InitSilence /\ [][CallGenerateSilenceWav]_vars

\* the manifest builder on a list of names and a duration
ManifestNames == {"s0", "s1", "s2"}
ManifestDurations == {40, 48}

InitConcat ==
    /\ CompInit
    /\ fnArg \in [slideNames : UNION {[1..n -> ManifestNames] :
                                        n \in 0..MaxSlides},
                  durationSeconds : ManifestDurations]
    /\ fnRet = Null

CallBuildConcatScript ==
    /\ IsNull(fnRet)
    /\ fnRet' = Some(buildConcatScript(fnArg.slideNames,
                                       fnArg.durationSeconds))
    /\ UNCHANGED <<compVars, fnArg>>

SpecConcat == InitConcat /\ [][CallBuildConcatScript]_vars

\* the normalizer on a listing built child by child: the i-th child is an
\* eligible post with id i, or has no data, no id, is pinned or is adult
ChildKinds == {"ok", "noData", "noId", "stickied", "over18"}

RawPost(i) ==
    [id |-> i, title |-> <<"T">>, selftext |-> <<"b">>,
     author |-> "author", stickied |-> FALSE, over_18 |-> FALSE]

Child(kind, i) ==
    CASE kind = "ok" -> [data |-> Some(RawPost(i))]
      [] kind = "noData" -> [data |-> Null]
      [] kind = "noId" -> [data |-> Some([RawPost(i) EXCEPT !.id = 0])]
      [] kind = "stickied" ->
            [data |-> Some([RawPost(i) EXCEPT !.stickied = TRUE])]
      [] kind = "over18" ->
            [data |-> Some([RawPost(i) EXCEPT !.over_18 = TRUE])]

IsOkChild(child, i) == child = Child("ok", i)

InitNormalize == CompInit /\ fnArg = <<>> /\ fnRet = Null

FeedAppend(kind) ==
    /\ IsNull(fnRet)
    /\ Len(fnArg) < MaxFeed
    /\ kind # "ok" =>
          Cardinality({i \in DOMAIN fnArg : ~IsOkChild(fnArg[i], i)})
              < MaxDropped
    /\ fnArg' = Append(fnArg, Child(kind, Len(fnArg) + 1))
    /\ UNCHANGED <<compVars, fnRet>>

CallNormalize ==
    /\ IsNull(fnRet)
    /\ fnRet' = Some(Normalize(fnArg))
    /\ UNCHANGED <<compVars, fnArg>>

NormalizeNext ==
    \/ \E kind \in ChildKinds : FeedAppend(kind)
    \/ CallNormalize

SpecNormalize == InitNormalize /\ [][NormalizeNext]_vars

\* the summary rule on one post: a body of n characters between optional
\* white space under a short title, or a blank body under a title of n
\* characters and up to two final periods
CharAt(i) == ToString(i % 10)

TextOf(n) == [i \in 1..n |-> CharAt(i)]

Periods(p) == [i \in 1..p |-> "."]

Blanks == {<<>>, <<" ", "\n", "\t">>, <<"\r", "\n">>, <<"U+00A0">>}

SummaryPost(title, selftext) ==
    [id |-> 1, title |-> title, selftext |-> selftext, author |-> "author",
     stickied |-> FALSE, over_18 |-> FALSE]

SummaryInputs ==
    {SummaryPost(<<"T", ".">>, lead \o TextOf(n) \o trail) :
         n \in 0..MaxBodyLen, lead \in {<<>>, <<" ", "U+FEFF">>},
         trail \in {<<>>, <<"\n">>, <<"\r", "\n">>}}
    \cup {SummaryPost(TextOf(n) \o Periods(p), blank) :
         n \in 0..MaxTitleLen, p \in 0..2, blank \in Blanks}

InitSummary == CompInit /\ fnArg \in SummaryInputs /\ fnRet = Null

CallToUpdate ==
    /\ IsNull(fnRet)
    /\ fnRet' = Some(ToUpdate(fnArg))
    /\ UNCHANGED <<compVars, fnArg>>

SpecSummary == InitSummary /\ [][CallToUpdate]_vars

\* the line wrapper on every text of up to MaxTextLen characters, at the
\* position and line height of the title's call, line 513, in fonts whose
\* glyphs are one unit wide but for a W of up to MaxGlyphWidth units, and
\* that draw a period up to MaxKerning units closer to a W before it
WrapChars == {"i", "W", " ", "\r", ".", MIDDOT, ELLIPSIS}

TextsOf(n) == [1..n -> WrapChars]

Lines == UNION {TextsOf(n) : n \in 0..MaxTextLen}

Fonts ==
    {font \in [wide : 1..MaxGlyphWidth, kerning : 0..MaxKerning] :
         font.kerning < font.wide}

\* the width of a line as the canvas shapes it in such a font
RECURSIVE Shaped(_, _)
Shaped(font, line) ==
    IF line = <<>> THEN 0
    ELSE (IF Head(line) = "W" THEN font.wide ELSE 1)
         - (IF Len(line) >= 2 /\ line[1] = "W" /\ line[2] = "."
            THEN font.kerning ELSE 0)
         + Shaped(font, Tail(line))

\* the canvas context once context.font is set, lines 512 and 516
ContextOf(font) == [measureText |-> [line \in Lines |-> Shaped(font, line)]]

InitWrap ==
    /\ CompInit
    /\ fnArg \in [font : Fonts, text : Lines,
                  x : {120}, y : {230}, maxWidth : 1..MaxWidth,
                  lineHeight : {72}, maxLines : 1..MaxLines]
    /\ fnRet = Null

CallDrawWrappedText ==
    /\ IsNull(fnRet)
    /\ fnRet' = Some(drawWrappedText(ContextOf(fnArg.font), fnArg.text,
                                     fnArg.x, fnArg.y, fnArg.maxWidth,
                                     fnArg.lineHeight, fnArg.maxLines))
    /\ UNCHANGED <<compVars, fnArg>>

SpecWrap == InitWrap /\ [][CallDrawWrappedText]_vars

(***************************************************************************)
(* The component on the short feed, mounted and its runs going well, with  *)
(* an encoder that emits up to MaxLogBurst messages per run.               *)
(***************************************************************************)
LogsNext ==
    \/ ClickFetch
    \/ \E f \in DOMAIN fetches : FetchResponds(f, ShortFeedReply)
    \/ \E f \in DOMAIN fetches : FetchContinues(f)
    \/ \E f \in DOMAIN fetches : PayloadResolves(f)
    \/ ClickGenerate
    \/ \E r \in DOMAIN runs : LoadResolves(r)
    \/ \E r \in DOMAIN runs : RenderResolves(r)
    \/ \E r \in DOMAIN runs : WriteSlideResolves(r)
    \/ \E r \in DOMAIN runs : WriteManifestResolves(r)
    \/ \E r \in DOMAIN runs : WriteSilenceResolves(r)
    \/ \E r \in DOMAIN runs : ExecWritesOutput(r)
    \/ \E r \in DOMAIN runs : ExecResolves(r)
    \/ \E r \in DOMAIN runs : EncoderEmits(r)
    \/ Render

SpecLogs == Init /\ [][LogsNext]_vars

(***************************************************************************)
(* Notions the properties are stated with.                                 *)
(***************************************************************************)
\* the ceiling of 240 / n: the least k with k * n >= 240
CeilOf240Over(n) ==
    CHOOSE k \in 0..240 : k * n >= 240 /\ (k - 1) * n < 240

\* a raw record that has an identifier and is neither pinned nor adult
Eligible(child) ==
    /\ child.data # <<>>
    /\ child.data[1].id # 0
    /\ ~child.data[1].stickied
    /\ ~child.data[1].over_18

EligibleUpTo(feed, i) == {j \in 1..i : Eligible(feed[j])}

(***************************************************************************)
(* Properties of the component's handlers (SpecCore) and of the component  *)
(* behind its buttons (Spec).                                              *)
(***************************************************************************)
ActiveRuns == {r \in DOMAIN runs : Active(runs[r])}

\* the state as the setter calls made so far leave it: what is on screen,
\* overridden by what they have queued for the next render
SetError == IF pending.error = <<>> THEN error ELSE pending.error[1]
SetLoadingUpdates ==
    IF pending.loadingUpdates = <<>> THEN loadingUpdates
    ELSE pending.loadingUpdates[1]
SetUpdates == IF pending.updates = <<>> THEN updates ELSE pending.updates[1]
SetNarration ==
    IF pending.narration = <<>> THEN narration ELSE pending.narration[1]
SetIsGenerating ==
    IF pending.isGenerating = <<>> THEN isGenerating
    ELSE pending.isGenerating[1]
SetVideoUrl == IF pending.videoUrl = <<>> THEN videoUrl ELSE pending.videoUrl[1]
SetVideoDuration ==
    IF pending.videoDuration = <<>> THEN videoDuration
    ELSE pending.videoDuration[1]
SetLogs == IF pending.logs = <<>> THEN logs ELSE pending.logs[1]

\* C1 as stated: a generation request on an empty item list changes no
\* state at all (error included) and neither creates nor runs the encoder.
C1_AsStated ==
    [][(Len(updates) = 0 /\ handleGenerateVideo) =>
          UNCHANGED <<updates, loadingUpdates, error, narration, isGenerating,
                      videoUrl, videoDuration, logs, ffmpegRef, runs,
                      instances, files, objectUrls>>]_vars

\* C1, amended: a generation request on an empty item list sets the error
\* message to the precondition message and changes nothing else: items,
\* narration, logs, video, the in-flight and loading flags are unchanged,
\* no run starts and no encoder is created or invoked.
C1_EmptyListOnlySetsError ==
    [][(Len(updates) = 0 /\ handleGenerateVideo) =>
          /\ error' = Some(MSG_PRECONDITION)
          /\ UNCHANGED <<updates, loadingUpdates, narration, isGenerating,
                         videoUrl, videoDuration, logs, ffmpegRef, runs,
                         instances, files, objectUrls>>]_vars

\* generation was requested on the empty list: the precondition message is
\* shown, and no run and no encoder exist
C1_Witness ==
    /\ Len(updates) = 0
    /\ error = Some(MSG_PRECONDITION)
    /\ ~isGenerating
    /\ runs = <<>>
    /\ instances = 0

\* C2: at most one generation run is in flight, and while one is, a click
\* on the generate button starts nothing (the button is disabled).
C2_OneRunInFlight ==
    /\ Cardinality(ActiveRuns) <= 1
    /\ ActiveRuns # {} => (isGenerating /\ ~ENABLED ClickGenerate)

\* a second run is in the encoder while the first has returned
C2_Witness ==
    /\ Len(runs) = 2
    /\ runs[1].pc = "done"
    /\ runs[2].pc = "exec"
    /\ isGenerating

\* C3: while the component is mounted, no step of a run other than its
\* successful end changes the exposed video handle, its duration (on screen
\* or queued for the next render) or the release count of any handle; when
\* the run fails an error message is set, the exposed handle is the one the
\* run started with, it is unreleased, and its duration is that of the run
\* that produced it.
C3_FailedRunKeepsPriorVideo ==
    [][\A r \in DOMAIN runs :
          (Active(runs[r]) /\ mounted') =>
              /\ runs'[r].pc # "done" =>
                    /\ UNCHANGED <<videoUrl, videoDuration, objectUrls>>
                    /\ SetVideoUrl' = SetVideoUrl
                    /\ SetVideoDuration' = SetVideoDuration
              /\ runs'[r].pc = "failed" =>
                    /\ SetError' # Null
                    /\ videoUrl' = runs[r].videoUrl
                    /\ SetVideoUrl' = runs[r].videoUrl
                    /\ videoUrl' # Null =>
                          /\ objectUrls'[videoUrl'[1]] = 0
                          /\ \E q \in DOMAIN runs :
                                /\ runs[q].pc = "done"
                                /\ runs[q].url = videoUrl'
                                /\ videoDuration' =
                                      Some(runs[q].finalDuration)]_vars

\* a run has failed after an earlier one had produced a video, which is
\* still exposed and unreleased
C3_Witness ==
    /\ mounted
    /\ Len(runs) = 2
    /\ runs[1].pc = "done"
    /\ runs[2].pc = "failed"
    /\ videoUrl = runs[1].url
    /\ videoDuration = Some(runs[1].finalDuration)
    /\ objectUrls[Val(videoUrl)] = 0
    /\ error = Some(MSG_ENCODER)

\* the upstream feed of a settled fetch answered with no eligible record
NoEligibleRecord(reply) ==
    \/ reply.children = <<>>
    \/ \A i \in DOMAIN reply.children[1] : ~Eligible(reply.children[1][i])

\* C4: when fetchUpdates ends on a fetch that failed (no response, or the
\* feed threw, answered a non-success status or a body that is not JSON, or
\* the client could not read the answer) or that brought no eligible item,
\* it has set an error message and cleared the loading flag and leaves the
\* item list and the narration as they were, on screen and as set; the
\* message for no items differs from the one for a non-success status.
C4_FailedFetchKeepsItems ==
    [][\A f \in DOMAIN fetches :
          (fetches' = RemoveAt(fetches, f) /\ mounted) =>
              LET noResponse == fetches[f].reply = <<>>
                  reply == fetches[f].reply[1]
                  badStatus == ~noResponse
                               /\ (reply.threw
                                     \/ ~(reply.status \in 200..299)
                                     \/ ~reply.parses)
                  noItems == ~noResponse /\ ~badStatus
                             /\ NoEligibleRecord(reply)
                  unreadable == SetError' = Some(MSG_JSON)
              IN  /\ (noResponse \/ badStatus \/ noItems \/ unreadable) =>
                        /\ SetError' # Null
                        /\ ~SetLoadingUpdates'
                        /\ SetUpdates' = SetUpdates
                        /\ SetNarration' = SetNarration
                        /\ UNCHANGED <<updates, narration>>
                  /\ badStatus => SetError' = Some(MSG_UNABLE)
                  /\ (noItems /\ ~unreadable) =>
                        SetError' = Some(MSG_NO_FRESH)
                  /\ MSG_UNABLE # MSG_NO_FRESH]_vars

\* a fetch that brought no item has ended while items of an earlier fetch
\* are held
C4_Witness ==
    /\ mounted
    /\ Len(updates) > 0
    /\ narration = buildNarration(updates)
    /\ error = Some(MSG_NO_FRESH)
    /\ ~loadingUpdates
    /\ fetches = <<>>
    /\ pending = NoPending

\* C7: when a run has ended in Done and its video is the exposed one, the
\* exposed duration is max(ceil(240 / n), 40) * n for the n items the run
\* started with (240 for 6 items); and until another run starts, the silence
\* track in the encoder is that many seconds long and the manifest holds n
\* duration lines of one value whose sum is that duration.
C7_DoneDurationMatchesPlan ==
    \A r \in DOMAIN runs :
        (runs[r].pc = "done" /\ videoUrl = runs[r].url) =>
            LET n == Len(runs[r].updates)
                fs == files[runs[r].ffmpeg]
            IN  /\ videoDuration = Some(Max(CeilOf240Over(n), 40) * n)
                /\ n = 6 => videoDuration = Some(240)
                /\ r = Len(runs) =>
                      /\ fs["silence.wav"].byteLength =
                            44 + Val(videoDuration) * 44100 * 2
                      /\ Len(fs["slides.txt"]) = 2 * n + 1
                      /\ \E p \in 1..240 :
                            /\ p * n = Val(videoDuration)
                            /\ \A i \in 1..n :
                                  fs["slides.txt"][2 * i] =
                                      "duration " \o ToString(p)

\* a run over 6 items has ended in Done with a 240-second video
C7_Witness ==
    /\ mounted
    /\ Len(runs) >= 1
    /\ runs[Len(runs)].pc = "done"
    /\ Len(runs[Len(runs)].updates) = 6
    /\ runs[Len(runs)].perSlideDuration = 40
    /\ videoUrl = runs[Len(runs)].url
    /\ videoDuration = Some(240)

(***************************************************************************)
(* Properties of the duration planner (SpecPlan).                          *)
(***************************************************************************)
PlanCalled == ~IsNull(fnRet) /\ Val(fnRet).of = "handleGenerateVideo"
MemoCalled == ~IsNull(fnRet) /\ Val(fnRet).of = "totalDuration"

\* C5: for every item count n >= 1 (1..50 and beyond), the plan of a
\* generation run has perSlideDuration = max(ceil(240 / n), 40),
\* finalDuration = perSlideDuration * n and perSlideDuration >= 40, and the
\* displayed totalDuration is that same product.
C5_PlanMatchesFormula ==
    /\ PlanCalled =>
          LET plan == Val(fnRet).plan
          IN  /\ plan.perSlideDuration = Max(CeilOf240Over(fnArg), 40)
              /\ plan.perSlideDuration * fnArg = plan.finalDuration
              /\ plan.perSlideDuration >= 40
    /\ (MemoCalled /\ fnArg >= 1) =>
          Val(fnRet).plan.totalDuration = Max(CeilOf240Over(fnArg), 40) * fnArg

\* the planner has run on 7 items: ceil(240 / 7) = 35 is below the fallback
C5_Witness ==
    /\ PlanCalled
    /\ fnArg = 7
    /\ Val(fnRet).plan = [perSlideDuration |-> 40, finalDuration |-> 280]

\* C6 as stated: the total is at least 240 when n * 40 >= 240, and is
\* n * 40 otherwise.
C6_AsStated ==
    PlanCalled =>
        LET total == Val(fnRet).plan.finalDuration
        IN  IF fnArg * 40 >= 240 THEN total >= 240 ELSE total = fnArg * 40

\* C6, amended: the total is at least 240 for every n >= 1; when
\* n * 40 < 240 it is n * ceil(240 / n), not n * 40.
C6_TotalReachesMinimum ==
    PlanCalled =>
        LET total == Val(fnRet).plan.finalDuration
        IN  /\ total >= 240
            /\ fnArg * 40 < 240 => total = fnArg * CeilOf240Over(fnArg)
            /\ fnArg * 40 >= 240 => total = fnArg * 40

\* the planner has run on 3 items: 3 * 40 < 240, and the total is 240
C6_Witness ==
    /\ PlanCalled
    /\ fnArg = 3
    /\ Val(fnRet).plan.finalDuration = 240

(***************************************************************************)
(* Properties of the silence generator (SpecSilence).                      *)
(***************************************************************************)
\* the four bytes at an offset of a buffer read, least significant first, as
\* the unsigned 32-bit number value
Uint32LEAt(buf, offset, value) ==
    /\ ByteAt(buf, offset) = value % 256
    /\ ByteAt(buf, offset + 1) = (value \div 256) % 256
    /\ ByteAt(buf, offset + 2) = (value \div 65536) % 256
    /\ ByteAt(buf, offset + 3) = value \div 16777216

\* C8: generateSilenceWav(d) is 44 + d*44100*2 bytes long, its data-chunk
\* length (offset 40) is d*44100*2, its RIFF size (offset 4) is the file
\* length minus 8, and no byte after the 44-byte header is other than zero
\* (no byte at or after offset 44 is ever written in the zero-filled buffer).
C8_SilenceHeaderExact ==
    ~IsNull(fnRet) =>
        LET buf == Val(fnRet)
        IN  /\ buf.byteLength = 44 + fnArg * 44100 * 2
            /\ Uint32LEAt(buf, 40, fnArg * 44100 * 2)
            /\ Uint32LEAt(buf, 4, buf.byteLength - 8)
            /\ Uint32LEAt(buf, 4, 36 + fnArg * 44100 * 2)
            /\ \A i \in DOMAIN buf.written : i >= 44 => ByteAt(buf, i) = 0
            /\ \A i \in DOMAIN buf.written : i >= 0 /\ i < buf.byteLength

\* four minutes of silence have been generated
C8_Witness ==
    /\ ~IsNull(fnRet)
    /\ fnArg = 240
    /\ Val(fnRet).byteLength = 21168044
    /\ Uint32LEAt(Val(fnRet), 40, 21168000)

(***************************************************************************)
(* Properties of the manifest builder (SpecConcat).                        *)
(***************************************************************************)
\* C9: for a non-empty list of n names and a duration D, the script is, for
\* each name in order, its file line followed by the line "duration D", and
\* then one more file line naming the last slide, with nothing after it; for
\* [s0, s1, s2] and 40 it is exactly the seven lines of the example.
C9_ManifestLines ==
    (~IsNull(fnRet) /\ fnArg.slideNames # <<>>) =>
        LET names == fnArg.slideNames
            n == Len(names)
            script == Val(fnRet)
        IN  /\ Len(script) = 2 * n + 1
            /\ \A i \in 1..n :
                  /\ script[2 * i - 1] = "file '" \o names[i] \o "'"
                  /\ script[2 * i] =
                        "duration " \o ToString(fnArg.durationSeconds)
            /\ script[2 * n + 1] = "file '" \o names[n] \o "'"
            /\ (names = <<"s0", "s1", "s2">> /\ fnArg.durationSeconds = 40)
                  => script = <<"file 's0'", "duration 40", "file 's1'",
                                "duration 40", "file 's2'", "duration 40",
                                "file 's2'">>

\* the manifest of [s0, s1, s2] with 40 seconds a slide has been built
C9_Witness ==
    /\ ~IsNull(fnRet)
    /\ fnArg = [slideNames |-> <<"s0", "s1", "s2">>, durationSeconds |-> 40]
    /\ Len(Val(fnRet)) = 7

(***************************************************************************)
(* Properties of the normalizer (SpecNormalize).                           *)
(***************************************************************************)
\* C10: the normalizer's output is the first 10 records, in feed order, of
\* the records that have an identifier and are neither pinned nor adult:
\* its j-th item is the j-th eligible record, and it has min(10, number of
\* eligible records) items.
C10_FirstTenEligibleInOrder ==
    ~IsNull(fnRet) =>
        LET feed == fnArg
            out == Val(fnRet)
        IN  /\ Len(out) = Min(10, Cardinality(EligibleUpTo(feed, Len(feed))))
            /\ Len(out) <= 10
            /\ \A j \in 1..Len(out) :
                  \E i \in 1..Len(feed) :
                      /\ Eligible(feed[i])
                      /\ Cardinality(EligibleUpTo(feed, i)) = j
                      /\ out[j].id = feed[i].data[1].id

\* 12 records, 2 pinned and 1 adult, have been normalized to 9 items
C10_Witness ==
    /\ ~IsNull(fnRet)
    /\ Len(fnArg) = 12
    /\ Cardinality({i \in 1..12 : fnArg[i] = Child("stickied", i)}) = 2
    /\ Cardinality({i \in 1..12 : fnArg[i] = Child("over18", i)}) = 1
    /\ Cardinality({i \in 1..12 : fnArg[i] = Child("ok", i)}) = 9
    /\ Len(Val(fnRet)) = 9

(***************************************************************************)
(* Properties of the summary rule (SpecSummary).                           *)
(***************************************************************************)
\* a text of white space only (the empty text included)
IsBlank(text) == \A i \in DOMAIN text : text[i] \in WhiteSpace

\* a text without the white space before its first and after its last
\* other character
WithoutOuterSpace(text) ==
    LET inner == {i \in DOMAIN text : text[i] \notin WhiteSpace}
    IN  IF inner = {} THEN <<>>
        ELSE SubSeq(text, CHOOSE i \in inner : \A j \in inner : i <= j,
                          CHOOSE i \in inner : \A j \in inner : i >= j)

\* a title without its final period, if it has one
WithoutFinalPeriod(title) ==
    IF Len(title) > 0 /\ title[Len(title)] = "."
    THEN SubSeq(title, 1, Len(title) - 1) ELSE title

CallToAction ==
    <<".", " ", "F", "o", "r", " ", "t", "h", "e", " ", "f", "u", "l", "l",
      " ", "c", "o", "n", "t", "e", "x", "t", ",", " ", "v", "i", "s", "i",
      "t", " ", "t", "h", "e", " ", "l", "i", "n", "k", "e", "d", " ", "a",
      "r", "t", "i", "c", "l", "e", ".">>

\* the fallback sentence of a title
FallbackSentence(title) ==
    <<"S", "t", "a", "y", " ", "i", "n", "f", "o", "r", "m", "e", "d", ":",
      " ">> \o WithoutFinalPeriod(title) \o CallToAction

\* the summary before the cap: the trimmed body, or the fallback sentence
Uncapped(post) ==
    IF IsBlank(post.selftext) THEN FallbackSentence(post.title)
    ELSE WithoutOuterSpace(post.selftext)

\* part occurs in text as consecutive characters
IsSubstring(part, text) ==
    \E k \in 0..(Len(text) - Len(part)) :
        SubSeq(text, k + 1, k + Len(part)) = part

\* C11: every normalized item's summary is non-empty and at most 600
\* characters long; when the summary before the cap (trimmed body, or
\* fallback sentence) is longer than 600 characters the summary is its
\* first 597 characters followed by "...", and otherwise it is unchanged.
C11_SummaryCapped ==
    ~IsNull(fnRet) =>
        LET summary == Val(fnRet).summary
            uncapped == Uncapped(fnArg)
        IN  /\ Len(summary) >= 1
            /\ Len(summary) <= 600
            /\ Len(uncapped) > 600 =>
                   summary = SubSeq(uncapped, 1, 597) \o <<".", ".", ".">>
            /\ Len(uncapped) <= 600 => summary = uncapped

\* a body of 601 characters has been cut to 597 and the marker, and a body
\* of 600 was kept whole
C11_Witness ==
    /\ ~IsNull(fnRet)
    /\ Len(WithoutOuterSpace(fnArg.selftext)) = 601
    /\ Len(Val(fnRet).summary) = 600
    /\ Val(fnRet).summary[597] = "7"
    /\ SubSeq(Val(fnRet).summary, 598, 600) = <<".", ".", ".">>

\* C12 as stated: for every record with a blank body, whatever its title,
\* the summary is non-empty and contains the title (without its final
\* period) followed by the call-to-action clause.
C12_AsStated ==
    (~IsNull(fnRet) /\ IsBlank(fnArg.selftext)) =>
        /\ Val(fnRet).summary # <<>>
        /\ IsSubstring(WithoutFinalPeriod(fnArg.title) \o CallToAction,
                       Val(fnRet).summary)

\* C12, amended: for every record with a blank body the summary is
\* non-empty; when the title without its final period has at most 536
\* characters the summary is the fallback sentence, which contains that
\* title followed by the call-to-action clause; when it is longer, the
\* summary is the first 597 characters of the fallback sentence and "...".
C12_FallbackEmbedsTitle ==
    (~IsNull(fnRet) /\ IsBlank(fnArg.selftext)) =>
        LET summary == Val(fnRet).summary
            title == WithoutFinalPeriod(fnArg.title)
        IN  /\ summary # <<>>
            /\ Len(title) <= 536 =>
                   /\ summary = FallbackSentence(fnArg.title)
                   /\ IsSubstring(title \o CallToAction, summary)
            /\ Len(title) > 536 =>
                   summary = SubSeq(FallbackSentence(fnArg.title), 1, 597)
                             \o <<".", ".", ".">>

\* a blank body under a title ending in a period gave the sentence with
\* the title without that period
C12_Witness ==
    /\ ~IsNull(fnRet)
    /\ fnArg.selftext = <<"\r", "\n">>
    /\ fnArg.title = <<"1", "2", "3", ".">>
    /\ SubSeq(Val(fnRet).summary, 1, 20) =
          <<"S", "t", "a", "y", " ", "i", "n", "f", "o", "r", "m", "e", "d",
            ":", " ", "1", "2", "3", ".", " ">>

(***************************************************************************)
(* Properties of the line wrapper (SpecWrap).                              *)
(***************************************************************************)
\* the words of a text: its maximal runs of characters other than white
\* space, in order
WordStarts(text) ==
    {i \in DOMAIN text : text[i] \notin WhiteSpace
                         /\ (i = 1 \/ text[i - 1] \in WhiteSpace)}

WordEnd(text, i) ==
    CHOOSE j \in i..Len(text) :
        /\ \A k \in i..j : text[k] \notin WhiteSpace
        /\ (j = Len(text) \/ text[j + 1] \in WhiteSpace)

WordsOfText(text) == {SubSeq(text, i, WordEnd(text, i)) : i \in WordStarts(text)}

\* each word of the text, measured on its own, fits within maxWidth
WordsFit(context, text, maxWidth) ==
    \A w \in WordsOfText(text) : context.measureText[w] <= maxWidth

\* the lines drawn, top to bottom
DrawnLines ==
    [i \in DOMAIN Val(fnRet).fillText |-> Val(fnRet).fillText[i].line]

\* the wrap made more lines than maxLines
WrapExceeded ==
    Len(WrapFrom(ContextOf(fnArg.font), SplitOnSpace(fnArg.text),
                 fnArg.maxWidth, <<>>, <<>>)) > fnArg.maxLines

\* C13 as stated: for a text whose words each fit within maxWidth, every
\* drawn line but a cut last one is made of whole words of the text, at most
\* maxLines lines are drawn, and when the wrap made more than maxLines lines
\* the last drawn line ends with exactly one ellipsis marker, with no other
\* ellipsis marker and no period before it.
C13_AsStated ==
    (~IsNull(fnRet)
        /\ WordsFit(ContextOf(fnArg.font), fnArg.text, fnArg.maxWidth)) =>
        /\ Len(DrawnLines) <= fnArg.maxLines
        /\ \A i \in DOMAIN DrawnLines :
              (i < Len(DrawnLines) \/ ~WrapExceeded) =>
                  WordsOfText(DrawnLines[i]) \subseteq WordsOfText(fnArg.text)
        /\ WrapExceeded =>
              LET last == DrawnLines[Len(DrawnLines)]
              IN  /\ Len(DrawnLines) = fnArg.maxLines
                  /\ last[Len(last)] = ELLIPSIS
                  /\ Len(last) >= 2 =>
                        last[Len(last) - 1] \notin {ELLIPSIS, "."}

(***************************************************************************)
(* Properties of the component's runs, logs and encoder (Spec).            *)
(***************************************************************************)
\* C14 as stated, in the form a finite run refutes: while the component is
\* mounted, a run that has returned (done or failed) has left the rendering
\* phase, so with no run in flight the in-flight flag isGenerating has been
\* set to false; this for every run, also one started after an earlier run
\* made a video.
C14_AsStated ==
    (mounted /\ ActiveRuns = {}) => ~SetIsGenerating

\* C15 as stated: a fetch and a rendering run are never in flight at the
\* same time: a generate click during a fetch starts no run and a fetch
\* click during a run starts no fetch (so that no fetch can replace the item
\* list while a run started on it is rendering).
C15_AsStated == ~(fetches # <<>> /\ ActiveRuns # {})

\* the run has completed its first rendering step
HasRendered(run) ==
    run.pc \in {"writeSlide", "writeManifest", "writeSilence", "exec"}

\* C16 as stated: when a run begins while a video handle from an earlier run
\* exists, that handle has been released before the run performs its first
\* rendering step.
C16_AsStated ==
    \A r \in DOMAIN runs :
        (mounted /\ HasRendered(runs[r]) /\ ~IsNull(runs[r].videoUrl)) =>
            objectUrls[Val(runs[r].videoUrl)] >= 1

\* C16, amended: the earlier video's handle is released when the new run
\* has produced its video, not before rendering starts: while the component
\* is mounted the handle is unreleased for as long as the run is in flight
\* and after the run has failed, and it has been released once the run is
\* done.
C16_PriorReleasedOnSuccess ==
    \A r \in DOMAIN runs :
        ~IsNull(runs[r].videoUrl) =>
            LET prior == Val(runs[r].videoUrl)
            IN  /\ (mounted /\ Active(runs[r])) => objectUrls[prior] = 0
                /\ (mounted /\ runs[r].pc = "failed"
                       /\ r = Len(runs)) => objectUrls[prior] = 0
                /\ runs[r].pc = "done" => objectUrls[prior] >= 1

\* a second run, started on the first run's video, is done and the first
\* video's handle is released
C16_Witness ==
    /\ mounted
    /\ Len(runs) = 2
    /\ runs[2].pc = "done"
    /\ runs[2].videoUrl = Some(1)
    /\ objectUrls[1] >= 1

\* the first k slides of a run are in its encoder's files, each under its
\* positional name and drawn from the item of that position
SlidesWritten(run, k) ==
    \A i \in 0..(k - 1) :
        /\ SlideName(i) \in DOMAIN files[run.ffmpeg]
        /\ files[run.ffmpeg][SlideName(i)].id = run.updates[i + 1].id
        /\ files[run.ffmpeg][SlideName(i)].label = <<i + 1, Len(run.updates)>>

\* the manifest in a run's encoder's files lists the run's slides in item
\* order
ManifestWritten(run) ==
    /\ "slides.txt" \in DOMAIN files[run.ffmpeg]
    /\ LET script == files[run.ffmpeg]["slides.txt"]
           n == Len(run.updates)
       IN  /\ Len(script) = 2 * n + 1
           /\ \A i \in 0..(n - 1) :
                 script[2 * i + 1] = "file '" \o SlideName(i) \o "'"

\* the silence track of the run's length is in its encoder's files
SilenceWritten(run) ==
    /\ "silence.wav" \in DOMAIN files[run.ffmpeg]
    /\ files[run.ffmpeg]["silence.wav"].byteLength
          = 44 + run.finalDuration * 88200

\* C17: within a run the stages happen in order: slide i is rendered and
\* written as slide-i.png before slide i+1 is rendered, one slide at a time
\* in ascending order; the manifest is written after all slides and lists
\* them in item order; the silence track is written after the manifest; the
\* encoder runs after slides, manifest and silence are written; the result
\* is read (and the video made from it) only after the encoder has run.
C17_StagesInOrder ==
    \A r \in DOMAIN runs :
        LET run == runs[r]
            n == Len(run.updates)
        IN  /\ run.pc \in {"render", "writeSlide"} =>
                  /\ run.index < n
                  /\ SlidesWritten(run, run.index)
                  /\ run.slideNames = [i \in 1..run.index |-> SlideName(i - 1)]
                  /\ run.pc = "writeSlide" =>
                        Val(run.slideData).label = <<run.index + 1, n>>
            /\ run.pc = "writeManifest" =>
                  /\ SlidesWritten(run, n)
                  /\ run.slideNames = [i \in 1..n |-> SlideName(i - 1)]
            /\ run.pc = "writeSilence" =>
                  SlidesWritten(run, n) /\ ManifestWritten(run)
            /\ run.pc = "exec" =>
                  /\ SlidesWritten(run, n)
                  /\ ManifestWritten(run)
                  /\ SilenceWritten(run)
            /\ run.pc # "done" => IsNull(run.url)
            /\ run.pc = "done" =>
                  /\ ~IsNull(run.url)
                  /\ "output.mp4" \in DOMAIN files[run.ffmpeg]

\* a second run, on a list of six items fetched after the first run's list
\* of two, has written its six slides, manifest and silence on the encoder
\* the first run used, and the encoder is running
C17_Witness ==
    /\ Len(runs) = 2
    /\ runs[1].pc = "done"
    /\ Len(runs[1].updates) = 2
    /\ runs[2].pc = "exec"
    /\ Len(runs[2].updates) = 6
    /\ runs[2].ffmpeg = runs[1].ffmpeg

\* C18 as stated: no encoder instance exists before the first generation
\* run, at most one instance is ever created, also when a run's encoder load
\* failed, and every run uses that instance.
C18_AsStated ==
    /\ runs = <<>> => instances = 0
    /\ instances <= 1
    /\ \A r \in DOMAIN runs : runs[r].ffmpeg = 1

\* C18, amended: no encoder instance exists before the first generation
\* run; the instance whose load succeeded is memoized, and from then on it
\* stays the memoized one, no further instance is created, and every run
\* that got past the load uses it; a run whose load failed memoizes nothing,
\* so the next run creates a new instance.
C18_LoadedInstanceMemoized ==
    /\ [](runs = <<>> => instances = 0)
    /\ [](instances <= Len(runs))
    /\ [](~IsNull(ffmpegRef) =>
             \A r \in DOMAIN runs :
                 runs[r].pc \notin {"load", "failed"} =>
                     runs[r].ffmpeg = Val(ffmpegRef))
    /\ [][~IsNull(ffmpegRef) =>
             (ffmpegRef' = ffmpegRef /\ instances' = instances)]_vars
    /\ [][(IsNull(ffmpegRef) /\ Len(runs') > Len(runs)) =>
             (instances' = instances + 1
                 /\ runs'[Len(runs')].ffmpeg = instances')]_vars

\* after a run whose load failed, a second run created a second instance;
\* its load succeeded, it is memoized and the run is done on it
C18_Witness ==
    /\ Len(runs) = 2
    /\ runs[1].pc = "failed"
    /\ runs[1].ffmpeg = 1
    /\ runs[2].pc = "done"
    /\ runs[2].ffmpeg = 2
    /\ ffmpegRef = Some(2)
    /\ instances = 2

(***************************************************************************)
(* Properties of the captured log list (SpecLogs).                         *)
(***************************************************************************)
\* the k-th message the encoder emits in a run
LineOf(k) == "line " \o ToString(k)

\* in this step the encoder of run r emits a message; the logger, whose
\* guard is the mounted ref, captures it
Emits(r) ==
    /\ r \in DOMAIN runs'
    /\ runs'[r].emitted = runs[r].emitted + 1

Captured(r) == isMountedRef /\ Emits(r)

\* C19: the captured log list, on screen and as set, never holds more than
\* 120 lines; when a message is captured the new list is the previous list
\* with the message appended, cut to its last 120 entries (the most recent
\* lines, in arrival order); the list is emptied at the start of every
\* generation run.
C19_LogWindow ==
    /\ [](Len(logs) <= 120 /\ Len(SetLogs) <= 120)
    /\ [][\A r \in DOMAIN runs :
             (Captured(r) /\ Len(SetLogs) < 120) =>
                 SetLogs' = SetLogs \o <<LineOf(runs'[r].emitted)>>]_vars
    /\ [][\A r \in DOMAIN runs :
             (Captured(r) /\ Len(SetLogs) = 120) =>
                 SetLogs' = Tail(SetLogs) \o <<LineOf(runs'[r].emitted)>>]_vars
    /\ [][Len(runs') > Len(runs) => (logs' = <<>> /\ SetLogs' = <<>>)]_vars

\* the encoder has emitted 122 messages in a run: the list holds the last
\* 120 of them, from the third on
C19_Witness ==
    /\ Len(logs) = 120
    /\ logs[1] = "line 3"
    /\ logs[120] = "line 122"

\* C20 as stated: while the component is mounted, every message the encoder
\* emits during a run is appended to the captured log list, in every run of
\* a sequence, also one started after an earlier run has exposed a video.
C20_AsStated ==
    [][\A r \in DOMAIN runs :
          (mounted /\ Emits(r)) =>
              /\ SetLogs' # <<>>
              /\ SetLogs'[Len(SetLogs')] = LineOf(runs'[r].emitted)]_vars

(***************************************************************************)
(* Properties of the video handles (Spec).                                 *)
(***************************************************************************)
\* the handle exposed to the user is unreleased while the component is
\* mounted
ExposedUnreleased ==
    (mounted /\ ~IsNull(videoUrl)) => objectUrls[Val(videoUrl)] = 0

\* every handle made while the component was mounted and superseded by a
\* newer one is released
SupersededReleased ==
    \A u \in DOMAIN objectUrls :
        (~IsNull(videoUrl) /\ u < Val(videoUrl)) => objectUrls[u] >= 1

\* after teardown the handle that was outstanding is released
TeardownReleases ==
    (~mounted /\ ~IsNull(videoUrl)) => objectUrls[Val(videoUrl)] >= 1

\* no handle is released more than once
ReleasedOnce == \A u \in DOMAIN objectUrls : objectUrls[u] <= 1

\* C21 as stated: before teardown the exposed video handle is unreleased;
\* each handle superseded by a newer video is released; on teardown the
\* outstanding handle is released; no handle is released more than once.
C21_AsStated ==
    /\ ExposedUnreleased
    /\ SupersededReleased
    /\ TeardownReleases
    /\ ReleasedOnce

====
